---- MODULE Spec2Model ----
(***************************************************************************)
(* Model of the go-blizzard client core: region/locale configuration       *)
(* (Client, SetRegion, SetLocale, accessors), the client-credentials token *)
(* lifecycle (AccessTokenReq, updateAccessTokenIfExp, UserInfoHeader,      *)
(* TokenValidation) and the three request functions (getStructData,        *)
(* getStructDataNoLocale, getStructDataOAuth).                             *)
(***************************************************************************)
EXTENDS Integers, Sequences, FiniteSets, TLC

VARIABLES
    c,        \* the Client's configuration fields (region, locale, hosts, namespaces)
    oauth,    \* the Client's OAuth struct (credentials, AccessTokenRequest, ExpiresAt)
    now,      \* the wall clock read by time.Now(), as <<seconds, nanoseconds>>
    issued,   \* history: token string -> instant until which the token endpoint made it valid
    last,     \* history: the most recent call, the requests it sent and what it returned
    writing,  \* the region a SetRegion running on another thread is storing, or NoRegion
    seen,     \* what a concurrent reader of the client observed during that SetRegion
    flight    \* the call that is waiting on the network, and whether its caller cancelled

vars == <<c, oauth, now, issued, last, writing, seen, flight>>

(***************************************************************************)
(* Bounds of the model.                                                    *)
(***************************************************************************)
MaxSecTicks == 2

(***************************************************************************)
(* Region and Locale.                                                      *)
(***************************************************************************)
US == 1
EU == 2
KR == 3
TW == 4
CN == 5

\* Region is an int: the inputs cover the zero value, the five constants and
\* one value past the table of Region.String.
Regions == 0..(CN + 1)

Locales == {"en_US", "zh_CN", "en US"}

rr == <<"", "us", "eu", "kr", "tw", "cn">>

\* fmt recovers a panic raised by a String method and prints it in place.
PanicText == "%!s(PANIC=String method: runtime error: index out of range)"

RegionString(region) ==
    IF region >= 0 /\ region < Len(rr) THEN rr[region + 1] ELSE PanicText

LocaleString(locale) == locale

(***************************************************************************)
(* SetRegion's assignments, as the record of the fields it stores.         *)
(***************************************************************************)
HostsOfOneTemplate(region) ==
    [oauthHost               |-> "https://" \o RegionString(region) \o ".battle.net",
     apiHost                 |-> "https://" \o RegionString(region) \o ".api.blizzard.com",
     dynamicNamespace        |-> "dynamic-" \o RegionString(region),
     dynamicClassicNamespace |-> "dynamic-classic-" \o RegionString(region),
     profileNamespace        |-> "profile-" \o RegionString(region),
     staticNamespace         |-> "static-" \o RegionString(region),
     staticClassicNamespace  |-> "static-classic-" \o RegionString(region)]

HostsOf(region) ==
    IF region = CN
    THEN [oauthHost               |-> "https://www.battlenet.com.cn",
          apiHost                 |-> "https://gateway.battlenet.com.cn",
          dynamicNamespace        |-> "dynamic-zh",
          dynamicClassicNamespace |-> "dynamic-classic-zh",
          profileNamespace        |-> "profile-zh",
          staticNamespace         |-> "static-zh",
          staticClassicNamespace  |-> "static-classic-zh"]
    ELSE [oauthHost               |-> "https://" \o RegionString(region) \o ".battle.net",
          apiHost                 |-> "https://" \o RegionString(region) \o ".api.blizzard.com",
          dynamicNamespace        |-> "dynamic-" \o RegionString(region),
          dynamicClassicNamespace |-> "dynamic-classic-" \o RegionString(region),
          profileNamespace        |-> "profile-" \o RegionString(region),
          staticNamespace         |-> "static-" \o RegionString(region),
          staticClassicNamespace  |-> "static-classic-" \o RegionString(region)]

\* The client after SetRegion(region) has run to its end.
WithRegionStale(cl, region) ==
    [cl EXCEPT !.region = region,
               !.oauthHost = HostsOf(region).oauthHost,
               !.apiHost = HostsOf(region).apiHost,
               !.tokenURL = HostsOf(region).oauthHost \o "/oauth/token"]

WithRegion(cl, region) ==
    [cl EXCEPT !.region = region,
               !.oauthHost = HostsOf(region).oauthHost,
               !.apiHost = HostsOf(region).apiHost,
               !.dynamicNamespace = HostsOf(region).dynamicNamespace,
               !.dynamicClassicNamespace = HostsOf(region).dynamicClassicNamespace,
               !.profileNamespace = HostsOf(region).profileNamespace,
               !.staticNamespace = HostsOf(region).staticNamespace,
               !.staticClassicNamespace = HostsOf(region).staticClassicNamespace,
               !.tokenURL = HostsOf(region).oauthHost \o "/oauth/token"]

\* The zero Client of NewClient's composite literal, with the locale stored.
ZeroClient(locale) ==
    [region |-> 0, locale |-> locale, oauthHost |-> "", apiHost |-> "",
     dynamicNamespace |-> "", dynamicClassicNamespace |-> "", profileNamespace |-> "",
     staticNamespace |-> "", staticClassicNamespace |-> "", tokenURL |-> ""]

(***************************************************************************)
(* Accessors.                                                              *)
(***************************************************************************)
GetLocale == c.locale
GetRegion == c.region
GetOAuthHost == c.oauthHost
GetAPIHost == c.apiHost
GetDynamicNamespace == c.dynamicNamespace
GetDynamicClassicNamespace == c.dynamicClassicNamespace
GetProfileNamespace == c.profileNamespace
GetStaticNamespace == c.staticNamespace
GetStaticClassicNamespace == c.staticClassicNamespace

(***************************************************************************)
(* Time: time.Time and time.Duration as <<seconds, nanoseconds>>, the      *)
(* nanoseconds in 0..Second-1 (a negative duration has negative seconds).  *)
(***************************************************************************)
Second == 1000000000

\* The untyped constant 60 of updateAccessTokenIfExp is a time.Duration: 60 ns.
RefreshMargin == 60

\* The zero time.Time lies before every instant of the clock.
ZeroTime == <<-1, 0>>

Norm(s, ns) ==
    IF ns >= Second THEN <<s + 1, ns - Second>>
    ELSE IF ns < 0 THEN <<s - 1, ns + Second>>
    ELSE <<s, ns>>

TimeAdd(t, d) == Norm(t[1] + d[1], t[2] + d[2])
TimeSub(t, u) == Norm(t[1] - u[1], t[2] - u[2])
Seconds(n) == <<n, 0>>
Nanoseconds(n) == Norm(0, n)
DurLess(d, e) == d[1] < e[1] \/ (d[1] = e[1] /\ d[2] < e[2])
TimeLeq(t, u) == ~DurLess(u, t)

(***************************************************************************)
(* Errors: a Go error as its dynamic type and its text; NoErr is nil.      *)
(***************************************************************************)
NoErr == [type |-> "nil", msg |-> ""]
URLError == [type |-> "*url.Error", msg |-> "dial tcp: connection refused"]
ParseError == [type |-> "*url.Error", msg |-> "parse: invalid URL escape"]
ReadError == [type |-> "*errors.errorString", msg |-> "unexpected EOF"]
SyntaxError == [type |-> "*json.SyntaxError", msg |-> "invalid character"]
UnmarshalTypeError == [type |-> "*json.UnmarshalTypeError", msg |-> "cannot unmarshal"]
ErrorsNew(text) == [type |-> "*errors.errorString", msg |-> text]

(***************************************************************************)
(* Response bodies (byte strings) and encoding/json.                       *)
(***************************************************************************)
BodyTokA == "{\"access_token\":\"tokA\",\"token_type\":\"bearer\",\"expires_in\":120}"
BodyTokB == "{\"access_token\":\"tokB\",\"token_type\":\"bearer\",\"expires_in\":30}"
BodyTokBadType == "{\"access_token\":\"tokB\",\"expires_in\":\"soon\"}"
BodyAuthError == "{\"error\":\"invalid_client\"}"
BodyHTML == "<html>Bad Gateway</html>"
BodyCut == "{\"id\":7,\"na"
BodyNull == "null"
BodyLeague == "{\"id\":7,\"name\":\"gold\"}"
BodyLeagueBadType == "{\"id\":\"seven\",\"name\":\"gold\"}"
BodyNotFound == "{\"code\":404,\"type\":\"BLZWEBAPI00000404\"}"

\* The JSON text as the decoder's scanner sees it: invalid, the literal null,
\* or an object with its members in order, each <<key, kind of value, value>>.
Invalid == [valid |-> FALSE, null |-> FALSE, members |-> <<>>]
Object(ms) == [valid |-> TRUE, null |-> FALSE, members |-> ms]

JSONParse(b) ==
    CASE b = BodyTokA -> Object(<< <<"access_token", "string", "tokA">>,
                                   <<"token_type", "string", "bearer">>,
                                   <<"expires_in", "number", 120>> >>)
      [] b = BodyTokB -> Object(<< <<"access_token", "string", "tokB">>,
                                   <<"token_type", "string", "bearer">>,
                                   <<"expires_in", "number", 30>> >>)
      [] b = BodyTokBadType -> Object(<< <<"access_token", "string", "tokB">>,
                                         <<"expires_in", "string", "soon">> >>)
      [] b = BodyAuthError -> Object(<< <<"error", "string", "invalid_client">> >>)
      [] b = BodyLeague -> Object(<< <<"id", "number", 7>>, <<"name", "string", "gold">> >>)
      [] b = BodyLeagueBadType -> Object(<< <<"id", "string", "seven">>,
                                            <<"name", "string", "gold">> >>)
      [] b = BodyNotFound -> Object(<< <<"code", "number", 404>>,
                                       <<"type", "string", "BLZWEBAPI00000404">> >>)
      [] b = BodyNull -> [valid |-> TRUE, null |-> TRUE, members |-> <<>>]
      [] OTHER -> Invalid

\* The kind of JSON value the Go field behind each key accepts (string or int).
FieldKind(key) == IF key \in {"expires_in", "id"} THEN "number" ELSE "string"

\* Decoding an object into a struct: a member with no matching field is
\* skipped, a matching one of the right kind is stored, one of the wrong kind
\* is left alone and the first such error is saved; decoding goes on.
RECURSIVE DecodeObject(_, _, _)
DecodeObject(ms, val, err) ==
    IF ms = <<>> THEN [val |-> val, err |-> err]
    ELSE LET m == Head(ms) IN
         IF m[1] \notin DOMAIN val THEN DecodeObject(Tail(ms), val, err)
         ELSE IF m[2] = FieldKind(m[1])
              THEN DecodeObject(Tail(ms), [val EXCEPT ![m[1]] = m[3]], err)
              ELSE DecodeObject(Tail(ms), val,
                                IF err = NoErr THEN UnmarshalTypeError ELSE err)

\* json.Unmarshal(b, &s) for a struct s: the text is checked whole before
\* anything is stored; the literal null stores nothing.
Unmarshal(b, val) ==
    LET doc == JSONParse(b) IN
    IF ~doc.valid THEN [val |-> val, err |-> SyntaxError]
    ELSE IF doc.null THEN [val |-> val, err |-> NoErr]
    ELSE DecodeObject(doc.members, val, NoErr)

(***************************************************************************)
(* HTTP: what client.Do and ioutil.ReadAll give for one request.           *)
(*   doErr  client.Do returned an error (no response)                      *)
(*   wire   the response body the server sent                              *)
(*   got    the bytes ReadAll returned; readOK whether it returned nil     *)
(***************************************************************************)
StatusOK == 200

NoResponse ==
    [doErr |-> TRUE, StatusCode |-> 0, Status |-> "", wire |-> "", got |-> "", readOK |-> FALSE]
Response(code, text, body) ==
    [doErr |-> FALSE, StatusCode |-> code, Status |-> text, wire |-> body, got |-> body,
     readOK |-> TRUE]
BrokenBody(code, text, body, part) ==
    [doErr |-> FALSE, StatusCode |-> code, Status |-> text, wire |-> body, got |-> part,
     readOK |-> FALSE]

ReadAll(res) == [b |-> res.got, err |-> IF res.readOK THEN NoErr ELSE ReadError]

\* http.NewRequest fails when the URL does not parse: of the hosts SetRegion
\* builds, the ones holding the text of a recovered panic ("%!s" is no escape).
NewRequestFails(host) ==
    host \in {"https://" \o PanicText \o ".battle.net",
              "https://" \o PanicText \o ".api.blizzard.com"}

(***************************************************************************)
(* Requests, as the fields the code sets on them.                          *)
(***************************************************************************)
NewRequest(method, url) ==
    [method |-> method, url |-> url, auth |-> "", accept |-> "", contentType |-> "",
     hasLocale |-> FALSE, locale |-> "", rawQuery |-> "",
     hasNamespace |-> FALSE, namespace |-> ""]

\* url.QueryEscape on the locales in use: letters, digits and "_" are kept, a
\* space becomes "+".
QueryEscape(s) ==
    CASE s = "en_US" -> "en_US"
      [] s = "zh_CN" -> "zh_CN"
      [] s = "en US" -> "en+US"

\* q := req.URL.Query(); q.Set("locale", value); req.URL.RawQuery = q.Encode(),
\* for a URL that carries no query of its own (none of Paths does).
SetLocaleQuery(req, value) ==
    [req EXCEPT !.hasLocale = TRUE, !.locale = value,
                !.rawQuery = "locale=" \o QueryEscape(value)]

\* if namespace != "" { req.Header.Set("Battlenet-Namespace", namespace) }
SetNamespace(req, namespace) ==
    IF namespace # "" THEN [req EXCEPT !.hasNamespace = TRUE, !.namespace = namespace]
    ELSE req

\* A nil []byte, and the values a call returns for its destination.
NilBytes == "(nil)"
ZeroLeague == [id |-> 0, name |-> ""]
ZeroTokenValidation == [client_id |-> ""]
NoDat == [ptr |-> "nil", val |-> ZeroLeague]

(***************************************************************************)
(* OAuth struct and the token calls of oauth.go.                           *)
(***************************************************************************)
Tokens == {"tokA", "tokB"}

NewOAuth(clientID, clientSecret) ==
    [ClientID |-> clientID, ClientSecret |-> clientSecret,
     AccessTokenRequest |-> [access_token |-> "", token_type |-> "", expires_in |-> 0,
                             scope |-> ""],
     ExpiresAt |-> ZeroTime]

\* AccessTokenReq at clock t; res is what the token endpoint answers.
AccessTokenReq(cl, o, t, res) ==
    LET req == [NewRequest("POST", cl.oauthHost \o "/oauth/token") EXCEPT
                    !.auth = "Basic " \o o.ClientID \o ":" \o o.ClientSecret,
                    !.contentType = "application/x-www-form-urlencoded"]
        b == ReadAll(res)
        u == Unmarshal(b.b, o.AccessTokenRequest)
    IN  IF NewRequestFails(cl.oauthHost)
        THEN [oauth |-> o, err |-> ParseError, sent |-> <<>>, now |-> t]
        ELSE IF res.doErr
        THEN [oauth |-> o, err |-> URLError, sent |-> <<req>>, now |-> t]
        ELSE IF b.err # NoErr
        THEN [oauth |-> o, err |-> b.err, sent |-> <<req>>, now |-> t]
        ELSE IF u.err # NoErr
        THEN [oauth |-> [o EXCEPT !.AccessTokenRequest = u.val],
              err |-> u.err, sent |-> <<req>>, now |-> t]
        ELSE [oauth |-> [o EXCEPT !.AccessTokenRequest = u.val,
                                  !.ExpiresAt = TimeAdd(t, Seconds(u.val.expires_in))],
              err |-> NoErr, sent |-> <<req>>, now |-> t]

\* c.oauth.ExpiresAt.Sub(time.Now().UTC()) < 60
Expiring(o, t) == DurLess(TimeSub(o.ExpiresAt, t), Nanoseconds(RefreshMargin))

updateAccessTokenAlways(cl, o, t, res) == AccessTokenReq(cl, o, t, res)

updateAccessTokenIfExp(cl, o, t, res) ==
    IF Expiring(o, t)
    THEN AccessTokenReq(cl, o, t, res)
    ELSE [oauth |-> o, err |-> NoErr, sent |-> <<>>, now |-> t]

BodyCheck == "{\"client_id\":\"id\"}"

UserInfoHeaderSkipTokenError(cl, o, t, tokRes, res) ==
    LET u == updateAccessTokenIfExp(cl, o, t, tokRes)
        req == [NewRequest("GET", cl.oauthHost \o "/oauth/userinfo") EXCEPT
                    !.auth = "Bearer " \o u.oauth.AccessTokenRequest.access_token,
                    !.accept = "application/json"]
        b == ReadAll(res)
        out == [oauth |-> u.oauth, now |-> u.now, dat |-> NoDat]
    IN  IF NewRequestFails(cl.oauthHost)
        THEN out @@ [err |-> ParseError, body |-> NilBytes, sent |-> u.sent]
        ELSE IF res.doErr
        THEN out @@ [err |-> URLError, body |-> NilBytes, sent |-> Append(u.sent, req)]
        ELSE IF b.err # NoErr
        THEN out @@ [err |-> b.err, body |-> NilBytes, sent |-> Append(u.sent, req)]
        ELSE out @@ [err |-> NoErr, body |-> b.b, sent |-> Append(u.sent, req)]

\* UserInfoHeader; res answers the request to /oauth/userinfo.
UserInfoHeader(cl, o, t, tokRes, res) ==
    LET u == updateAccessTokenIfExp(cl, o, t, tokRes)
        req == [NewRequest("GET", cl.oauthHost \o "/oauth/userinfo") EXCEPT
                    !.auth = "Bearer " \o u.oauth.AccessTokenRequest.access_token,
                    !.accept = "application/json"]
        b == ReadAll(res)
        out == [oauth |-> u.oauth, now |-> u.now, dat |-> NoDat]
    IN  IF u.err # NoErr
        THEN out @@ [err |-> u.err, body |-> NilBytes, sent |-> u.sent]
        ELSE IF NewRequestFails(cl.oauthHost)
        THEN out @@ [err |-> ParseError, body |-> NilBytes, sent |-> u.sent]
        ELSE IF res.doErr
        THEN out @@ [err |-> URLError, body |-> NilBytes, sent |-> Append(u.sent, req)]
        ELSE IF b.err # NoErr
        THEN out @@ [err |-> b.err, body |-> NilBytes, sent |-> Append(u.sent, req)]
        ELSE out @@ [err |-> NoErr, body |-> b.b, sent |-> Append(u.sent, req)]

\* TokenValidation; res answers the request to /oauth/check_token.
TokenValidation(cl, o, t, tokRes, res) ==
    LET u == updateAccessTokenIfExp(cl, o, t, tokRes)
        req == [NewRequest("GET", cl.oauthHost \o "/oauth/check_token?token="
                                    \o u.oauth.AccessTokenRequest.access_token) EXCEPT
                    !.accept = "application/json"]
        b == ReadAll(res)
        d == Unmarshal(b.b, ZeroTokenValidation)
        out == [oauth |-> u.oauth, now |-> u.now]
        zero == [ptr |-> "dst", val |-> ZeroTokenValidation]
    IN  IF u.err # NoErr
        THEN out @@ [err |-> u.err, body |-> NilBytes, dat |-> zero, sent |-> u.sent]
        ELSE IF NewRequestFails(cl.oauthHost)
        THEN out @@ [err |-> ParseError, body |-> NilBytes, dat |-> zero, sent |-> u.sent]
        ELSE IF res.doErr
        THEN out @@ [err |-> URLError, body |-> NilBytes, dat |-> zero,
                     sent |-> Append(u.sent, req)]
        ELSE IF b.err # NoErr
        THEN out @@ [err |-> b.err, body |-> b.b, dat |-> zero, sent |-> Append(u.sent, req)]
        ELSE out @@ [err |-> d.err, body |-> b.b, dat |-> [ptr |-> "dst", val |-> d.val],
                     sent |-> Append(u.sent, req)]

(***************************************************************************)
(* The request functions of the client.                                    *)
(***************************************************************************)
\* json.Unmarshal(body, &dat) with dat an interface holding a pointer to a
\* struct: the decoder stores through the pointer, except for the literal
\* null, which it stores in the interface itself.
UnmarshalIface(b, dat) ==
    LET doc == JSONParse(b) IN
    IF ~doc.valid THEN [dat |-> dat, err |-> SyntaxError]
    ELSE IF doc.null THEN [dat |-> [ptr |-> "nil", val |-> dat.val], err |-> NoErr]
    ELSE LET d == DecodeObject(doc.members, dat.val, NoErr)
         IN  [dat |-> [dat EXCEPT !.val = d.val], err |-> d.err]

\* The part the three functions share, from client.Do on.
DoAndDecodeAnyStatus(req, dat, res) ==
    LET b == ReadAll(res)
        d == UnmarshalIface(b.b, dat)
    IN  IF res.doErr
        THEN [dat |-> dat, body |-> NilBytes, err |-> URLError, sent |-> <<req>>]
        ELSE IF b.err # NoErr
        THEN [dat |-> dat, body |-> NilBytes, err |-> b.err, sent |-> <<req>>]
        ELSE IF d.err # NoErr
        THEN [dat |-> d.dat, body |-> b.b, err |-> d.err, sent |-> <<req>>]
        ELSE IF res.StatusCode # StatusOK
        THEN [dat |-> d.dat, body |-> b.b, err |-> ErrorsNew(res.Status), sent |-> <<req>>]
        ELSE [dat |-> d.dat, body |-> b.b, err |-> NoErr, sent |-> <<req>>]

DoAndDecodeStatusAsDecodeError(req, dat, res) ==
    LET b == ReadAll(res)
        d == UnmarshalIface(b.b, dat)
    IN  IF res.doErr
        THEN [dat |-> dat, body |-> NilBytes, err |-> URLError, sent |-> <<req>>]
        ELSE IF b.err # NoErr
        THEN [dat |-> dat, body |-> NilBytes, err |-> b.err, sent |-> <<req>>]
        ELSE IF res.StatusCode # StatusOK
        THEN [dat |-> dat, body |-> b.b, err |-> ErrorsNew(res.Status), sent |-> <<req>>]
        ELSE IF d.err # NoErr
        THEN [dat |-> d.dat, body |-> b.b, err |-> ErrorsNew(d.err.msg), sent |-> <<req>>]
        ELSE [dat |-> d.dat, body |-> b.b, err |-> NoErr, sent |-> <<req>>]

DoAndDecode(req, dat, res) ==
    LET b == ReadAll(res)
        d == UnmarshalIface(b.b, dat)
    IN  IF res.doErr
        THEN [dat |-> dat, body |-> NilBytes, err |-> URLError, sent |-> <<req>>]
        ELSE IF b.err # NoErr
        THEN [dat |-> dat, body |-> NilBytes, err |-> b.err, sent |-> <<req>>]
        ELSE IF res.StatusCode # StatusOK
        THEN [dat |-> dat, body |-> b.b, err |-> ErrorsNew(res.Status), sent |-> <<req>>]
        ELSE IF d.err # NoErr
        THEN [dat |-> d.dat, body |-> b.b, err |-> d.err, sent |-> <<req>>]
        ELSE [dat |-> d.dat, body |-> b.b, err |-> NoErr, sent |-> <<req>>]

BuildError(dat) == [dat |-> dat, body |-> NilBytes, err |-> ParseError, sent |-> <<>>]

getStructData(cl, pathAndQuery, namespace, dat, res) ==
    LET req == SetNamespace(SetLocaleQuery(
                   [NewRequest("GET", cl.apiHost \o pathAndQuery) EXCEPT
                        !.accept = "application/json"],
                   LocaleString(cl.locale)), namespace)
    IN  IF NewRequestFails(cl.apiHost) THEN BuildError(dat) ELSE DoAndDecode(req, dat, res)

getStructDataNoLocaleWithLocale(cl, pathAndQuery, namespace, dat, res) ==
    LET req == SetNamespace(SetLocaleQuery(
                   [NewRequest("GET", cl.apiHost \o pathAndQuery) EXCEPT
                        !.accept = "application/json"],
                   LocaleString(cl.locale)), namespace)
    IN  IF NewRequestFails(cl.apiHost) THEN BuildError(dat) ELSE DoAndDecode(req, dat, res)

getStructDataNoLocale(cl, pathAndQuery, namespace, dat, res) ==
    LET req == SetNamespace([NewRequest("GET", cl.apiHost \o pathAndQuery) EXCEPT
                                 !.accept = "application/json"], namespace)
    IN  IF NewRequestFails(cl.apiHost) THEN BuildError(dat) ELSE DoAndDecode(req, dat, res)

\* An oauth2.Token as the caller supplies it, and oauth2's Token.Valid.
NoToken == [AccessToken |-> "", RefreshToken |-> "", Expired |-> FALSE]
TokenValid(token) == token.AccessToken # "" /\ ~token.Expired

\* c.authorizedCfg.Client(context.Background(), token): its transport sets the
\* bearer of a valid token; for any other token it asks authorizedCfg for a new
\* one, which fails before anything is sent (no refresh token, or the token URL
\* of the Config, which nothing here sets), and Do returns that error.
AuthorizedDo(req, token, dat, res) ==
    IF TokenValid(token)
    THEN DoAndDecode([req EXCEPT !.auth = "Bearer " \o token.AccessToken], dat, res)
    ELSE [dat |-> dat, body |-> NilBytes, err |-> URLError, sent |-> <<>>]

getStructDataOAuth(cl, pathAndQuery, namespace, token, dat, res) ==
    LET req == SetNamespace(SetLocaleQuery(
                   [NewRequest("GET", cl.apiHost \o pathAndQuery) EXCEPT
                        !.accept = "application/json"],
                   LocaleString(cl.locale)), namespace)
    IN  IF NewRequestFails(cl.apiHost) THEN BuildError(dat)
        ELSE AuthorizedDo(req, token, dat, res)

(***************************************************************************)
(* Inputs.                                                                 *)
(***************************************************************************)
TokenResponses ==
    {NoResponse,
     Response(200, "200 OK", BodyTokA),
     Response(200, "200 OK", BodyTokB),
     Response(200, "200 OK", BodyTokBadType),
     Response(401, "401 Unauthorized", BodyAuthError),
     Response(502, "502 Bad Gateway", BodyHTML)}

OAuthResponses ==
    {NoResponse,
     Response(200, "200 OK", BodyCheck),
     BrokenBody(200, "200 OK", BodyCheck, "{\"cli")}

APIResponses ==
    {NoResponse,
     Response(200, "200 OK", BodyLeague),
     Response(200, "200 OK", BodyNull),
     Response(200, "200 OK", BodyHTML),
     Response(200, "200 OK", BodyLeagueBadType),
     Response(404, "404 Not Found", BodyNotFound),
     Response(500, "500 Internal Server Error", BodyLeague),
     BrokenBody(200, "200 OK", BodyLeague, BodyCut),
     BrokenBody(404, "404 Not Found", BodyNotFound, "{\"code\"")}

Paths == {"/data/sc2/league/1/2/3/4"}
Namespaces(cl) == {"", cl.dynamicNamespace}
UserTokens ==
    {[AccessToken |-> "userTok", RefreshToken |-> "", Expired |-> FALSE],
     [AccessToken |-> "oldTok", RefreshToken |-> "", Expired |-> TRUE],
     [AccessToken |-> "oldTok", RefreshToken |-> "userRefresh", Expired |-> TRUE]}
Destination == [ptr |-> "dst", val |-> ZeroLeague]

TickSteps == {<<30, 0>>}
ClockOK(t) == t[1] <= 30 * MaxSecTicks

\* A token response that issues a token: status 200 and a payload that
\* decodes without error and carries an access token.
IssuedBy(res) == Unmarshal(res.wire, NewOAuth("", "").AccessTokenRequest)
SuccessfulTokenResponse(res) ==
    /\ ~res.doErr /\ res.readOK /\ res.StatusCode = StatusOK
    /\ IssuedBy(res).err = NoErr
    /\ IssuedBy(res).val.access_token \in Tokens

\* issued after a call that sent the requests `sent` and got res at clock t.
Issue(iss, sent, res, t) ==
    IF sent # <<>> /\ SuccessfulTokenResponse(res)
    THEN [iss EXCEPT ![IssuedBy(res).val.access_token] =
                         TimeAdd(t, Seconds(IssuedBy(res).val.expires_in))]
    ELSE iss

NoCall ==
    [op |-> "NewClient", was |-> 0, pre |-> NewOAuth("id", "secret"), at |-> <<0, 0>>,
     tokRes |-> NoResponse, res |-> NoResponse,
     path |-> "", namespace |-> "", token |-> NoToken, locale |-> "", old |-> ZeroClient(""),
     sent |-> <<>>, err |-> NoErr, body |-> NilBytes, dat |-> NoDat]

\* No call is waiting on the network.
NoFlight == [op |-> "", state |-> "idle", token |-> NoToken, cancelled |-> FALSE,
             err |-> NoErr]

(***************************************************************************)
(* Initial state: the client NewClient returns.                            *)
(***************************************************************************)
Init ==
    /\ \E region \in Regions, locale \in Locales :
           c = WithRegion(ZeroClient(locale), region)
    /\ oauth = NewOAuth("id", "secret")
    /\ now = <<0, 0>>
    /\ issued = [tok \in Tokens |-> ZeroTime]
    /\ last = NoCall
    /\ writing = {}
    /\ seen = {}
    /\ flight = NoFlight

(***************************************************************************)
(* Configuration calls.                                                    *)
(***************************************************************************)
NewClient(region, locale) ==
    /\ c' = WithRegion(ZeroClient(locale), region)
    /\ oauth' = NewOAuth("id", "secret")
    /\ issued' = [tok \in Tokens |-> ZeroTime]
    /\ last' = [NoCall EXCEPT !.at = now]
    /\ UNCHANGED <<now, writing, seen, flight>>

SetRegionDropsToken(region) ==
    /\ c' = WithRegion(c, region)
    /\ oauth' = NewOAuth(oauth.ClientID, oauth.ClientSecret)
    /\ last' = [NoCall EXCEPT !.op = "SetRegion", !.was = c.region, !.pre = oauth,
                              !.at = now, !.old = c]
    /\ UNCHANGED <<now, issued, writing, seen, flight>>

SetRegion(region) ==
    /\ c' = WithRegion(c, region)
    /\ last' = [NoCall EXCEPT !.op = "SetRegion", !.was = c.region, !.pre = oauth,
                              !.at = now, !.old = c]
    /\ UNCHANGED <<oauth, now, issued, writing, seen, flight>>

SetLocale(locale) ==
    /\ c' = [c EXCEPT !.locale = locale]
    /\ last' = [NoCall EXCEPT !.op = "SetLocale", !.was = c.region, !.pre = oauth,
                              !.at = now, !.locale = locale, !.old = c]
    /\ UNCHANGED <<oauth, now, issued, writing, seen, flight>>

(***************************************************************************)
(* Calls of the request functions.                                         *)
(***************************************************************************)
Returned(op, path, namespace, token, res, r) ==
    [NoCall EXCEPT !.op = op, !.was = c.region, !.pre = oauth, !.at = now, !.res = res,
                   !.path = path, !.namespace = namespace, !.token = token,
                   !.sent = r.sent, !.err = r.err, !.body = r.body, !.dat = r.dat]

CallGetStructData(path, namespace, res) ==
    /\ last' = Returned("getStructData", path, namespace, NoToken, res,
                        getStructData(c, path, namespace, Destination, res))
    /\ UNCHANGED <<c, oauth, now, issued, writing, seen, flight>>

CallGetStructDataNoLocale(path, namespace, res) ==
    /\ last' = Returned("getStructDataNoLocale", path, namespace, NoToken, res,
                        getStructDataNoLocale(c, path, namespace, Destination, res))
    /\ UNCHANGED <<c, oauth, now, issued, writing, seen, flight>>

CallGetStructDataOAuthRefreshing(path, namespace, token, res) ==
    LET u == updateAccessTokenIfExp(c, oauth, now, Response(200, "200 OK", BodyTokA))
        r == getStructDataOAuth(c, path, namespace, token, Destination, res)
    IN  /\ oauth' = u.oauth
        /\ last' = Returned("getStructDataOAuth", path, namespace, token, res,
                            [r EXCEPT !.sent = u.sent \o r.sent])
        /\ UNCHANGED <<c, now, issued, writing, seen, flight>>

CallGetStructDataOAuth(path, namespace, token, res) ==
    /\ last' = Returned("getStructDataOAuth", path, namespace, token, res,
                        getStructDataOAuth(c, path, namespace, token, Destination, res))
    /\ UNCHANGED <<c, oauth, now, issued, writing, seen, flight>>

Next ==
    \/ \E region \in Regions, locale \in Locales : NewClient(region, locale)
    \/ \E region \in Regions : SetRegion(region)
    \/ \E locale \in Locales : SetLocale(locale)
    \/ \E path \in Paths, namespace \in Namespaces(c), res \in APIResponses :
           CallGetStructData(path, namespace, res)
    \/ \E path \in Paths, namespace \in Namespaces(c), res \in APIResponses :
           CallGetStructDataNoLocale(path, namespace, res)
    \/ \E path \in Paths, namespace \in Namespaces(c), token \in UserTokens,
          res \in APIResponses :
           CallGetStructDataOAuth(path, namespace, token, res)

Spec == Init /\ [][Next]_vars

(***************************************************************************)
(* Calls of the token functions, with the clock.                           *)
(***************************************************************************)
Tick(step) ==
    /\ ClockOK(TimeAdd(now, step))
    /\ now' = TimeAdd(now, step)
    /\ UNCHANGED <<c, oauth, issued, last, writing, seen, flight>>

TokenReturned(op, tokRes, res, r) ==
    [NoCall EXCEPT !.op = op, !.was = c.region, !.pre = oauth, !.at = now,
                   !.tokRes = tokRes, !.res = res,
                   !.sent = r.sent, !.err = r.err, !.body = r.body, !.dat = r.dat]

CallAccessTokenReq(tokRes) ==
    LET r == AccessTokenReq(c, oauth, now, tokRes) IN
    /\ ClockOK(r.now)
    /\ oauth' = r.oauth
    /\ now' = r.now
    /\ issued' = Issue(issued, r.sent, tokRes, r.now)
    /\ last' = TokenReturned("AccessTokenReq", tokRes, NoResponse,
                             r @@ [body |-> NilBytes, dat |-> NoDat])
    /\ UNCHANGED <<c, writing, seen, flight>>

\* The token answer is an input only when a token request is made.
TokenInputs == IF Expiring(oauth, now) THEN TokenResponses ELSE {NoResponse}

CallUpdateAccessTokenIfExp(tokRes) ==
    LET r == updateAccessTokenIfExp(c, oauth, now, tokRes) IN
    /\ ClockOK(r.now)
    /\ oauth' = r.oauth
    /\ now' = r.now
    /\ issued' = Issue(issued, r.sent, tokRes, r.now)
    /\ last' = TokenReturned("updateAccessTokenIfExp", tokRes, NoResponse,
                             r @@ [body |-> NilBytes, dat |-> NoDat])
    /\ UNCHANGED <<c, writing, seen, flight>>

\* Whether the call sent its own request after the token step.
AskedOAuth(r) == r.sent # <<>> /\ r.sent[Len(r.sent)].method = "GET"

CallUserInfoHeader(tokRes, res) ==
    LET r == UserInfoHeader(c, oauth, now, tokRes, res) IN
    /\ ClockOK(r.now)
    /\ AskedOAuth(r) \/ res = NoResponse
    /\ oauth' = r.oauth
    /\ now' = r.now
    /\ issued' = Issue(issued, updateAccessTokenIfExp(c, oauth, now, tokRes).sent,
                       tokRes, r.now)
    /\ last' = TokenReturned("UserInfoHeader", tokRes, res, r)
    /\ UNCHANGED <<c, writing, seen, flight>>

CallTokenValidation(tokRes, res) ==
    LET r == TokenValidation(c, oauth, now, tokRes, res) IN
    /\ ClockOK(r.now)
    /\ AskedOAuth(r) \/ res = NoResponse
    /\ oauth' = r.oauth
    /\ now' = r.now
    /\ issued' = Issue(issued, updateAccessTokenIfExp(c, oauth, now, tokRes).sent,
                       tokRes, r.now)
    /\ last' = TokenReturned("TokenValidation", tokRes, res, r)
    /\ UNCHANGED <<c, writing, seen, flight>>

NextToken ==
    \/ \E step \in TickSteps : Tick(step)
    \/ \E tokRes \in TokenResponses : CallAccessTokenReq(tokRes)
    \/ \E tokRes \in TokenInputs : CallUpdateAccessTokenIfExp(tokRes)
    \/ \E tokRes \in TokenInputs, res \in OAuthResponses : CallUserInfoHeader(tokRes, res)
    \/ \E tokRes \in TokenInputs, res \in OAuthResponses : CallTokenValidation(tokRes, res)

\* The token calls are followed on one well-formed and one unparsable host.
InitToken == Init /\ c.region \in {EU, CN + 1} /\ c.locale = "en_US"

SpecToken == InitToken /\ [][NextToken]_vars

\* The setters beside the token refresh, with the clock: region and locale are
\* switched while a token is stored.
NextSwitch ==
    \/ \E region \in Regions : SetRegion(region)
    \/ \E locale \in Locales : SetLocale(locale)
    \/ \E step \in TickSteps : Tick(step)
    \/ \E tokRes \in TokenInputs : CallUpdateAccessTokenIfExp(tokRes)

SpecSwitch == InitToken /\ [][NextSwitch]_vars

\* The request functions beside the token refresh, with the clock: the stored
\* token is absent, fresh or expired when a request function is called.
NextCalls ==
    \/ \E step \in TickSteps : Tick(step)
    \/ \E tokRes \in TokenInputs : CallUpdateAccessTokenIfExp(tokRes)
    \/ \E path \in Paths, res \in APIResponses : CallGetStructData(path, "", res)
    \/ \E path \in Paths, res \in APIResponses : CallGetStructDataNoLocale(path, "", res)
    \/ \E path \in Paths, token \in UserTokens, res \in APIResponses :
           CallGetStructDataOAuth(path, "", token, res)

SpecCalls == InitToken /\ [][NextCalls]_vars

(***************************************************************************)
(* A call waiting in Do, and its caller cancelling meanwhile. The three    *)
(* request functions take a context and build their request with           *)
(* http.NewRequestWithContext; AccessTokenReq and updateAccessTokenIfExp   *)
(* take no argument and build theirs with http.NewRequest, whose context   *)
(* is context.Background().                                                *)
(***************************************************************************)
TokenOps == {"AccessTokenReq", "updateAccessTokenIfExp"}
BlockingOps == {"getStructData", "getStructDataNoLocale", "getStructDataOAuth"} \cup TokenOps

HasContext(op) == op \in {"getStructData", "getStructDataNoLocale", "getStructDataOAuth"}

\* What Do returns when the request's context is cancelled.
Canceled == [type |-> "*url.Error", msg |-> "context canceled"]

\* The call has built its request and waits in Do.
Send(op, token) ==
    /\ flight.state # "sent"
    /\ IF HasContext(op) THEN ~NewRequestFails(c.apiHost) ELSE ~NewRequestFails(c.oauthHost)
    /\ op = "updateAccessTokenIfExp" => Expiring(oauth, now)
    /\ IF op = "getStructDataOAuth" THEN TokenValid(token) ELSE token = NoToken
    /\ flight' = [NoFlight EXCEPT !.op = op, !.state = "sent", !.token = token]
    /\ UNCHANGED <<c, oauth, now, issued, last, writing, seen>>

\* The caller cancels the context it holds.
Cancel ==
    /\ flight.state = "sent" /\ ~flight.cancelled
    /\ flight' = [flight EXCEPT !.cancelled = TRUE]
    /\ UNCHANGED <<c, oauth, now, issued, last, writing, seen>>

\* Do returns the context's error to a call whose request carries the
\* cancelled context: return dat, nil, err.
Abort ==
    /\ flight.state = "sent" /\ flight.cancelled /\ HasContext(flight.op)
    /\ flight' = [flight EXCEPT !.state = "returned", !.err = Canceled]
    /\ last' = Returned(flight.op, "/data/sc2/league/1/2/3/4", "", flight.token, NoResponse,
                        [dat |-> Destination, body |-> NilBytes, err |-> Canceled,
                         sent |-> <<>>])
    /\ UNCHANGED <<c, oauth, now, issued, writing, seen>>

\* The API host answers a request function that was not cancelled.
RespondAPI(res) ==
    LET path == "/data/sc2/league/1/2/3/4"
        r == CASE flight.op = "getStructData" ->
                      getStructData(c, path, "", Destination, res)
               [] flight.op = "getStructDataNoLocale" ->
                      getStructDataNoLocale(c, path, "", Destination, res)
               [] flight.op = "getStructDataOAuth" ->
                      getStructDataOAuth(c, path, "", flight.token, Destination, res)
    IN  /\ flight.state = "sent" /\ HasContext(flight.op) /\ ~flight.cancelled
        /\ flight' = [flight EXCEPT !.state = "returned", !.err = r.err]
        /\ last' = Returned(flight.op, path, "", flight.token, res, r)
        /\ UNCHANGED <<c, oauth, now, issued, writing, seen>>

\* The token endpoint answers a token call; nothing else ends its wait.
RespondToken(tokRes) ==
    LET r == AccessTokenReq(c, oauth, now, tokRes) IN
    /\ flight.state = "sent" /\ flight.op \in TokenOps
    /\ flight' = [flight EXCEPT !.state = "returned", !.err = r.err]
    /\ oauth' = r.oauth
    /\ issued' = Issue(issued, r.sent, tokRes, r.now)
    /\ last' = TokenReturned(flight.op, tokRes, NoResponse,
                             r @@ [body |-> NilBytes, dat |-> NoDat])
    /\ UNCHANGED <<c, now, writing, seen>>

NextCancel ==
    \/ \E op \in BlockingOps, token \in UserTokens \cup {NoToken} : Send(op, token)
    \/ Cancel
    \/ Abort
    \/ \E res \in APIResponses : RespondAPI(res)
    \/ \E tokRes \in TokenResponses : RespondToken(tokRes)

InitCancel == Init /\ c.region = EU /\ c.locale = "en_US"

SpecCancel == InitCancel /\ [][NextCancel]_vars

(***************************************************************************)
(* SetRegion on one thread while another thread reads the client. The      *)
(* stores of SetRegion are plain field writes with no lock, so a read that *)
(* races with them sees, field by field, the old or the new value.         *)
(***************************************************************************)
SetRegionBegin(region) ==
    /\ writing = {}
    /\ writing' = {region}
    /\ seen' = {}
    /\ UNCHANGED <<c, oauth, now, issued, last, flight>>

SetRegionEnd ==
    /\ writing # {}
    /\ \E region \in writing : c' = WithRegion(c, region)
    /\ writing' = {}
    /\ seen' = {}
    /\ UNCHANGED <<oauth, now, issued, last, flight>>

\* The reader calls GetRegion and GetOAuthHost and builds a request as an
\* endpoint wrapper does (c.apiHost and a namespace field); `stored` are the
\* fields whose new value has reached it.
ObservedFields == {"region", "oauthHost", "apiHost", "dynamicNamespace", "staticNamespace"}

ReadClient(stored) ==
    /\ writing # {} \/ stored = {}
    /\ seen' = {[f \in ObservedFields |->
                    IF f \in stored /\ writing # {}
                    THEN WithRegion(c, CHOOSE region \in writing : TRUE)[f]
                    ELSE c[f]]}
    /\ UNCHANGED <<c, oauth, now, issued, last, writing, flight>>

NextConc ==
    \/ \E region \in Regions : SetRegionBegin(region)
    \/ SetRegionEnd
    \/ \E stored \in SUBSET ObservedFields : ReadClient(stored)

SpecConc == Init /\ [][NextConc]_vars

(***************************************************************************)
(* Properties.                                                             *)
(***************************************************************************)
ApiOps == {"getStructData", "getStructDataNoLocale", "getStructDataOAuth"}

\* The call `last` got a response from the API host.
Answered == last.op \in ApiOps /\ last.sent # <<>> /\ ~last.res.doErr

\* What was left of the stored token when the call `last` began.
Remaining == TimeSub(last.pre.ExpiresAt, last.at)

\* A token request that failed: no response, a status outside 2xx, or a
\* payload that does not decode as a token.
TokenRequestFailed(res) ==
    \/ res.doErr
    \/ res.StatusCode \notin 200..299
    \/ IssuedBy(res).err # NoErr

\* C1: after any sequence of NewClient, SetRegion and SetLocale calls, the
\* OAuth host, the API host and the five namespaces the accessors return are
\* the ones derived from the region GetRegion returns.
C1_AccessorsFollowRegion ==
    /\ GetOAuthHost = HostsOf(GetRegion).oauthHost
    /\ GetAPIHost = HostsOf(GetRegion).apiHost
    /\ GetDynamicNamespace = HostsOf(GetRegion).dynamicNamespace
    /\ GetDynamicClassicNamespace = HostsOf(GetRegion).dynamicClassicNamespace
    /\ GetProfileNamespace = HostsOf(GetRegion).profileNamespace
    /\ GetStaticNamespace = HostsOf(GetRegion).staticNamespace
    /\ GetStaticClassicNamespace = HostsOf(GetRegion).staticClassicNamespace

\* A region switch from US to CN has happened and the CN namespace is read.
C1_Witness ==
    /\ last.op = "SetRegion" /\ last.was = US /\ GetRegion = CN
    /\ GetProfileNamespace = "profile-zh"

\* C2: a reader running concurrently with SetRegion never observes region,
\* hosts and namespaces that belong to different regions.
C2_ReaderSeesOneRegion ==
    \A s \in seen : \A f \in ObservedFields : s[f] = WithRegion(c, s.region)[f]

\* C3: whenever UserInfoHeader or TokenValidation sends its request, the
\* token it attaches was issued by a successful token response and the
\* current time is not later than that token's issue time plus expires_in.
C3_TokenValidAtSend ==
    (last.op \in {"UserInfoHeader", "TokenValidation"} /\ AskedOAuth(last))
        => /\ oauth.AccessTokenRequest.access_token \in Tokens
           /\ issued[oauth.AccessTokenRequest.access_token] # ZeroTime
           /\ TimeLeq(now, issued[oauth.AccessTokenRequest.access_token])

\* C4: when AccessTokenReq, called directly or through
\* updateAccessTokenIfExp, fails, the stored token fields and ExpiresAt are
\* what they were before the call.
C4_FailedRefreshKeepsToken ==
    (/\ last.op \in {"AccessTokenReq", "updateAccessTokenIfExp"}
     /\ last.sent # <<>>
     /\ last.err # NoErr)
        => oauth = last.pre

\* C5: updateAccessTokenIfExp called with now >= ExpiresAt - 60 seconds
\* performs exactly one token request, and if that request succeeds the
\* stored token is the response's and ExpiresAt is now plus its expires_in.
C5_RefreshWithinMargin ==
    (/\ last.op = "updateAccessTokenIfExp"
     /\ ~NewRequestFails(c.oauthHost)
     /\ ~DurLess(Seconds(60), Remaining))
        => /\ Len(last.sent) = 1
           /\ SuccessfulTokenResponse(last.tokRes)
                => /\ oauth.AccessTokenRequest = IssuedBy(last.tokRes).val
                   /\ oauth.ExpiresAt =
                          TimeAdd(last.at, Seconds(IssuedBy(last.tokRes).val.expires_in))

\* C6: updateAccessTokenIfExp called with now < ExpiresAt - 60 seconds
\* performs no network call, returns no error and leaves the stored token
\* and ExpiresAt unchanged.
C6_NoRefreshWhileFresh ==
    (last.op = "updateAccessTokenIfExp" /\ DurLess(Seconds(60), Remaining))
        => /\ last.sent = <<>>
           /\ last.err = NoErr
           /\ oauth = last.pre

\* updateAccessTokenIfExp has run on a token with more than 60 seconds left.
C6_Witness ==
    /\ last.op = "updateAccessTokenIfExp"
    /\ DurLess(Seconds(60), Remaining)
    /\ last.pre.AccessTokenRequest.access_token = "tokA"
    /\ last.at = <<30, 0>>

\* C7: AccessTokenReq returns a non-nil error whenever the token request
\* fails in transport, is answered with a non-2xx status, or is answered
\* with a malformed token payload.
C7_TokenFailureSurfaced ==
    (/\ last.op = "AccessTokenReq"
     /\ last.sent # <<>>
     /\ TokenRequestFailed(last.tokRes))
        => last.err # NoErr

\* C8 as stated: for the three request functions, a response with a status
\* other than 200 gives an error whose text is the status text, the raw body
\* unchanged, and a destination that was not decoded into.
C8_NonOKGivesStatusError ==
    (Answered /\ last.res.StatusCode # StatusOK)
        => /\ last.err = ErrorsNew(last.res.Status)
           /\ last.body = last.res.wire
           /\ last.dat = Destination

\* C8 as amended: the same, for a response whose body was read to its end.
C8_NonOKReadGivesStatusError ==
    (Answered /\ last.res.readOK /\ last.res.StatusCode # StatusOK)
        => /\ last.err = ErrorsNew(last.res.Status)
           /\ last.body = last.res.wire
           /\ last.dat = Destination

\* A 500 response whose body would decode into the destination was returned.
C8_Witness ==
    /\ Answered /\ last.res.readOK
    /\ last.res.StatusCode = 500 /\ last.res.wire = BodyLeague
    /\ last.err.msg = "500 Internal Server Error"

\* C9: for every outcome of the three request functions the returned bytes
\* are all the response bytes that were available: the literal body when it
\* was read, the bytes read so far when reading failed.
C9_RawBodyAlwaysReturned ==
    Answered => last.body = last.res.got

\* The body is no JSON text, or an object with a member of the wrong kind
\* for the destination's field of that name.
Malformed(b) ==
    \/ ~JSONParse(b).valid
    \/ \E i \in 1..Len(JSONParse(b).members) :
           /\ JSONParse(b).members[i][1] \in DOMAIN ZeroLeague
           /\ JSONParse(b).members[i][2] # FieldKind(JSONParse(b).members[i][1])

\* C10: a 200 response whose body is not valid JSON for the destination
\* gives a non-nil decode error with the literal response bytes, and that
\* error differs in type from the error for a non-200 status.
C10_DecodeErrorCarriesBody ==
    (/\ Answered /\ last.res.readOK
     /\ last.res.StatusCode = StatusOK
     /\ Malformed(last.res.wire))
        => /\ last.err # NoErr
           /\ last.err.type \in {SyntaxError.type, UnmarshalTypeError.type}
           /\ last.err.type # ErrorsNew(last.res.Status).type
           /\ last.body = last.res.wire

\* A 200 response with an HTML body was returned as a syntax error.
C10_Witness ==
    /\ Answered /\ last.res.StatusCode = StatusOK
    /\ last.res.wire = BodyHTML
    /\ last.err = SyntaxError


\* C11: NewClient or SetRegion given the zero Region or a value outside
\* US..CN never leaves the client with an OAuth host, API host or namespace
\* built from an empty region code.
C11_NoHostFromEmptyRegion ==
    /\ GetOAuthHost # "https://.battle.net"
    /\ GetAPIHost # "https://.api.blizzard.com"
    /\ GetDynamicNamespace # "dynamic-"
    /\ GetDynamicClassicNamespace # "dynamic-classic-"
    /\ GetProfileNamespace # "profile-"
    /\ GetStaticNamespace # "static-"
    /\ GetStaticClassicNamespace # "static-classic-"

\* The reference table of regions: the code of each, and the hosts and
\* namespaces of the China region.
RegionCode(region) ==
    CASE region = US -> "us" [] region = EU -> "eu" [] region = KR -> "kr"
      [] region = TW -> "tw" [] region = CN -> "cn"

\* C12: for every region of US..CN the client holds exactly the reference
\* table's hosts and namespaces, and distinct regions have distinct API hosts.
C12_ReferenceTable ==
    /\ GetRegion = CN
         => /\ GetOAuthHost = "https://www.battlenet.com.cn"
            /\ GetAPIHost = "https://gateway.battlenet.com.cn"
            /\ GetDynamicNamespace = "dynamic-zh"
            /\ GetDynamicClassicNamespace = "dynamic-classic-zh"
            /\ GetProfileNamespace = "profile-zh"
            /\ GetStaticNamespace = "static-zh"
            /\ GetStaticClassicNamespace = "static-classic-zh"
    /\ GetRegion \in {US, EU, KR, TW}
         => /\ GetOAuthHost = "https://" \o RegionCode(GetRegion) \o ".battle.net"
            /\ GetAPIHost = "https://" \o RegionCode(GetRegion) \o ".api.blizzard.com"
            /\ GetDynamicNamespace = "dynamic-" \o RegionCode(GetRegion)
            /\ GetDynamicClassicNamespace = "dynamic-classic-" \o RegionCode(GetRegion)
            /\ GetProfileNamespace = "profile-" \o RegionCode(GetRegion)
            /\ GetStaticNamespace = "static-" \o RegionCode(GetRegion)
            /\ GetStaticClassicNamespace = "static-classic-" \o RegionCode(GetRegion)
    /\ \A r1, r2 \in US..CN :
           r1 # r2 => WithRegion(c, r1).apiHost # WithRegion(c, r2).apiHost

\* SetRegion(TW) has run on a client of the China region.
C12_Witness ==
    /\ last.op = "SetRegion" /\ last.was = CN /\ GetRegion = TW
    /\ GetAPIHost = "https://tw.api.blizzard.com"


\* The query parameters a server reads from a raw query string.
ParseQuery(rawQuery) ==
    CASE rawQuery = "" -> {}
      [] rawQuery = "locale=en_US" -> {<<"locale", "en_US">>}
      [] rawQuery = "locale=zh_CN" -> {<<"locale", "zh_CN">>}
      [] rawQuery = "locale=en+US" -> {<<"locale", "en US">>}

\* C13: every request the three request functions send targets apiHost + path
\* with Accept: application/json; its query holds the locale parameter, equal
\* to the client's stored locale, in getStructData and getStructDataOAuth and
\* no parameter in getStructDataNoLocale; it has the Battlenet-Namespace header
\* exactly when the namespace argument is non-empty, and then with that value.
C13_RequestShape ==
    last.op \in ApiOps =>
        \A i \in 1..Len(last.sent) :
            LET req == last.sent[i] IN
            /\ req.method = "GET"
            /\ req.url = GetAPIHost \o last.path
            /\ req.accept = "application/json"
            /\ ParseQuery(req.rawQuery) =
                   IF last.op = "getStructDataNoLocale" THEN {}
                   ELSE {<<"locale", GetLocale>>}
            /\ req.hasNamespace <=> last.namespace # ""
            /\ req.hasNamespace => req.namespace = last.namespace

\* getStructData has sent a request with a namespace header and a locale that
\* is escaped in the query.
C13_Witness ==
    /\ last.op = "getStructData" /\ last.sent # <<>>
    /\ last.namespace # "" /\ last.sent[1].hasNamespace
    /\ GetLocale = "en US" /\ last.sent[1].rawQuery = "locale=en+US"


\* C14: a call of getStructDataOAuth leaves the stored access token and
\* ExpiresAt as they were, sends no token request, and every request it sends
\* goes to the API host with the caller's token as bearer; with a valid token
\* and a well-formed host it sends exactly one, whatever the stored token's
\* expiry state.
C14_DelegatedLeavesStore ==
    last.op = "getStructDataOAuth" =>
        /\ oauth = last.pre
        /\ \A i \in 1..Len(last.sent) :
               /\ last.sent[i].method = "GET"
               /\ last.sent[i].url = GetAPIHost \o last.path
               /\ last.sent[i].url # GetOAuthHost \o "/oauth/token"
               /\ last.sent[i].auth = "Bearer " \o last.token.AccessToken
        /\ TokenValid(last.token) /\ ~NewRequestFails(GetAPIHost) => Len(last.sent) = 1

\* getStructDataOAuth has sent the caller's token while the stored token, once
\* obtained, is past its refresh margin.
C14_Witness ==
    /\ last.op = "getStructDataOAuth" /\ last.sent # <<>>
    /\ last.sent[1].auth = "Bearer userTok"
    /\ oauth.AccessTokenRequest.access_token \in Tokens
    /\ Expiring(oauth, now)


\* The calls that C16 is about send at most one request each.
AtMostOneRequest ==
    last.op \in ApiOps \cup {"updateAccessTokenIfExp"} => Len(last.sent) <= 1

\* C16: one call of a request function sends at most one request to the API
\* host and one call of updateAccessTokenIfExp at most one token request; when
\* the request met a transport error, a non-200 status or a decode error, the
\* call returns that failure and has sent the request once.
C16_NoRetryFailureReturned ==
    /\ AtMostOneRequest
    /\ (/\ last.op \in ApiOps /\ last.sent # <<>>
        /\ \/ last.res.doErr
           \/ last.res.StatusCode # StatusOK
           \/ last.res.readOK /\ Malformed(last.res.wire))
           => last.err # NoErr /\ Len(last.sent) = 1
    /\ (/\ last.op = "updateAccessTokenIfExp" /\ last.sent # <<>>
        /\ TokenRequestFailed(last.tokRes))
           => last.err # NoErr /\ Len(last.sent) = 1


\* C17: for every outcome of the three request functions, the first value
\* returned is the non-nil destination pointer the caller passed in (so the
\* wrappers' assertion dat.(*T) succeeds).
C17_DestinationReturned ==
    last.op \in ApiOps => last.dat.ptr = Destination.ptr


\* C18: UserInfoHeader and TokenValidation run updateAccessTokenIfExp first:
\* what they send starts with what it sends and the stored token is the one it
\* leaves; when it returns an error they return that error and send no request
\* to /oauth/userinfo or /oauth/check_token; on a client whose ExpiresAt is
\* zero such a request is always preceded by a token request.
C18_RefreshBeforeOAuthCalls ==
    last.op \in {"UserInfoHeader", "TokenValidation"} =>
        LET u == updateAccessTokenIfExp(c, last.pre, last.at, last.tokRes) IN
        /\ Len(last.sent) >= Len(u.sent)
        /\ SubSeq(last.sent, 1, Len(u.sent)) = u.sent
        /\ oauth = u.oauth
        /\ u.err # NoErr
             => /\ last.err = u.err
                /\ \A i \in 1..Len(last.sent) : last.sent[i].method # "GET"
        /\ (Expiring(last.pre, last.at) /\ last.tokRes.doErr)
             => /\ last.err # NoErr
                /\ \A i \in 1..Len(last.sent) : last.sent[i].method # "GET"
        /\ (last.pre.ExpiresAt = ZeroTime /\ AskedOAuth(last))
             => /\ Len(last.sent) = 2
                /\ last.sent[1].method = "POST"
                /\ last.sent[1].url = GetOAuthHost \o "/oauth/token"

\* UserInfoHeader on a new client whose token request met a transport error
\* has returned that error after the token request alone.
C18_Witness ==
    /\ last.op = "UserInfoHeader"
    /\ last.pre.ExpiresAt = ZeroTime
    /\ last.tokRes.doErr
    /\ last.err = URLError
    /\ Len(last.sent) = 1 /\ last.sent[1].method = "POST"


\* The fields of the client other than the locale.
RegionFields ==
    {"region", "oauthHost", "apiHost", "dynamicNamespace", "dynamicClassicNamespace",
     "profileNamespace", "staticNamespace", "staticClassicNamespace", "tokenURL"}

\* C19: SetLocale stores the locale it is given and leaves the region, the
\* hosts, the namespaces, the credentials, the stored access token and
\* ExpiresAt as they were; SetRegion leaves the locale, the credentials, the
\* stored access token and ExpiresAt as they were, so a stored token that was
\* fresh before the switch is kept and updateAccessTokenIfExp, called at that
\* instant on the switched client, sends no token request.
C19_SettersDisjoint ==
    /\ last.op = "SetLocale"
         => /\ GetLocale = last.locale
            /\ \A f \in RegionFields : c[f] = last.old[f]
            /\ oauth = last.pre
    /\ last.op = "SetRegion"
         => /\ GetLocale = last.old.locale
            /\ oauth = last.pre
            /\ ~Expiring(last.pre, last.at)
                 => \A tokRes \in TokenResponses :
                        updateAccessTokenIfExp(c, oauth, last.at, tokRes).sent = <<>>

\* SetRegion has switched the region of a client holding a fresh token.
C19_Witness ==
    /\ last.op = "SetRegion"
    /\ last.old.region = EU /\ GetRegion = US
    /\ oauth.AccessTokenRequest.access_token = "tokA"
    /\ ~Expiring(oauth, now)


\* C15: a call of a request function or of AccessTokenReq /
\* updateAccessTokenIfExp whose caller cancelled while it waited on the network
\* returns the cancellation error.
C15_CancelReturnsCancellation ==
    (flight.state = "returned" /\ flight.cancelled) => flight.err = Canceled

====
